---- MODULE Spec2Model ----
(***************************************************************************)
(* pngme: a codec for the PNG chunk container.                             *)
(*   chunk_type.rs  ChunkType: a 4-byte tag whose letter case carries flags *)
(*   chunk.rs       Chunk: tag + payload + CRC-32, parse and serialisation  *)
(*   commands.rs    encode / decode / remove / print over a file            *)
(* Bytes are 0..255.  A u32 is kept at its width as two 16-bit limbs        *)
(* <<hi, lo>> (value hi * 2^16 + lo); a usize has the same shape with an    *)
(* unbounded high limb.                                                     *)
(***************************************************************************)
EXTENDS Integers, Sequences, FiniteSets, TLC

VARIABLES
    tagIn,      \* ChunkType: the raw bytes last handed to a constructor
    tagRes,     \* ChunkType: Result<ChunkType> of that construction
    tagFlags,   \* ChunkType: the predicates read off the constructed tag
    dataIn,     \* Chunk: the payload handed to Chunk::new
    chunk,      \* Chunk: the value built by Chunk::new
    buf,        \* Chunk: the byte buffer handed to Chunk::try_from
    bufKind,    \* Chunk: how buf was derived from chunk.as_bytes()
    dropAt,     \* Chunk: 0-based position of the byte dropped from buf
    parsed,     \* Chunk: Result<Chunk> of Chunk::try_from(buf)
    dataLen,    \* Chunk (sizes only): data.len() of a chunk, a usize
    lenRes,     \* Chunk (sizes only): length() of that chunk, a u32
    bytesLen,   \* Chunk (sizes only): as_bytes().len() of that chunk
    fs,         \* commands: file system, path -> bytes or Missing
    png,        \* commands: the handler's local `png` when it returned
    last        \* commands: the last command, its arguments and outcome

vars == <<tagIn, tagRes, tagFlags, dataIn, chunk, buf, bufKind, dropAt, parsed,
          dataLen, lenRes, bytesLen, fs, png, last>>

\* "not yet computed" for a Result, a record and a number
NoResult == [ok |-> FALSE, err |-> "None"]
Nothing == [none |-> TRUE]

Ok(v) == [ok |-> TRUE, val |-> v]
Err(e) == [ok |-> FALSE, err |-> e]

(***************************************************************************)
(* Machine integers                                                        *)
(***************************************************************************)
Limb == 256 * 256

\* n as a usize, n a natural number of the model
USize(n) == <<n \div Limb, n % Limb>>

\* `x as u32` for a usize x: the low 32 bits
AsU32(x) == <<x[1] % Limb, x[2]>>

\* usize addition of a small natural
USizeAdd(x, k) == <<x[1] + ((x[2] + k) \div Limb), (x[2] + k) % Limb>>

\* a <= b for two limb pairs
LimbLeq(a, b) == a[1] < b[1] \/ (a[1] = b[1] /\ a[2] <= b[2])

\* u32::to_be_bytes
ToBeBytes(x) == <<x[1] \div 256, x[1] % 256, x[2] \div 256, x[2] % 256>>

\* u32::from_be_bytes
FromBeBytes(b) == <<b[1] * 256 + b[2], b[3] * 256 + b[4]>>

\* a ^ b for two 4-bit values, at [a + 1][b + 1]
XorNibble == <<
    << 0,  1,  2,  3,  4,  5,  6,  7,  8,  9, 10, 11, 12, 13, 14, 15>>,
    << 1,  0,  3,  2,  5,  4,  7,  6,  9,  8, 11, 10, 13, 12, 15, 14>>,
    << 2,  3,  0,  1,  6,  7,  4,  5, 10, 11,  8,  9, 14, 15, 12, 13>>,
    << 3,  2,  1,  0,  7,  6,  5,  4, 11, 10,  9,  8, 15, 14, 13, 12>>,
    << 4,  5,  6,  7,  0,  1,  2,  3, 12, 13, 14, 15,  8,  9, 10, 11>>,
    << 5,  4,  7,  6,  1,  0,  3,  2, 13, 12, 15, 14,  9,  8, 11, 10>>,
    << 6,  7,  4,  5,  2,  3,  0,  1, 14, 15, 12, 13, 10, 11,  8,  9>>,
    << 7,  6,  5,  4,  3,  2,  1,  0, 15, 14, 13, 12, 11, 10,  9,  8>>,
    << 8,  9, 10, 11, 12, 13, 14, 15,  0,  1,  2,  3,  4,  5,  6,  7>>,
    << 9,  8, 11, 10, 13, 12, 15, 14,  1,  0,  3,  2,  5,  4,  7,  6>>,
    <<10, 11,  8,  9, 14, 15, 12, 13,  2,  3,  0,  1,  6,  7,  4,  5>>,
    <<11, 10,  9,  8, 15, 14, 13, 12,  3,  2,  1,  0,  7,  6,  5,  4>>,
    <<12, 13, 14, 15,  8,  9, 10, 11,  4,  5,  6,  7,  0,  1,  2,  3>>,
    <<13, 12, 15, 14,  9,  8, 11, 10,  5,  4,  7,  6,  1,  0,  3,  2>>,
    <<14, 15, 12, 13, 10, 11,  8,  9,  6,  7,  4,  5,  2,  3,  0,  1>>,
    <<15, 14, 13, 12, 11, 10,  9,  8,  7,  6,  5,  4,  3,  2,  1,  0>>>>

\* a ^ b for two bytes
XorByte(a, b) ==
    XorNibble[(a \div 16) + 1][(b \div 16) + 1] * 16
        + XorNibble[(a % 16) + 1][(b % 16) + 1]

\* a ^ b for two 16-bit limbs
Xor(a, b) == XorByte(a \div 256, b \div 256) * 256 + XorByte(a % 256, b % 256)

(***************************************************************************)
(* CRC-32/ISO-HDLC, as the crc crate computes it: reflected, polynomial    *)
(* 0xEDB88320, initial value and final xor 0xFFFFFFFF, one table lookup    *)
(* per input byte.  CrcTable[n + 1] is the crate's table entry for byte n: *)
(* n put through 8 rounds of crc = (crc >> 1) ^ (0xEDB88320 if crc & 1).   *)
(***************************************************************************)
CrcTable == <<
    <<0, 0>>, <<30471, 12438>>, <<60942, 24876>>, <<39177, 20922>>,
    <<1901, 50201>>, <<28778, 62607>>, <<59747, 42293>>, <<40548, 38307>>,
    <<3803, 34866>>, <<31196, 47268>>, <<57557, 59678>>, <<38866, 55688>>,
    <<2486, 19499>>, <<32433, 31933>>, <<59320, 11527>>, <<37055, 7569>>,
    <<7607, 4196>>, <<27312, 8434>>, <<62393, 29000>>, <<33982, 16862>>,
    <<6874, 54397>>, <<28125, 58603>>, <<62676, 46417>>, <<33747, 34247>>,
    <<4972, 38998>>, <<25707, 43200>>, <<64866, 63866>>, <<35429, 51692>>,
    <<5121, 23631>>, <<25350, 27865>>, <<64015, 15715>>, <<36104, 3573>>,
    <<15214, 8392>>, <<19561, 4190>>, <<54624, 16868>>, <<41575, 29042>>,
    <<15363, 58577>>, <<19204, 54343>>, <<53773, 34301>>, <<42250, 46443>>,
    <<13749, 43258>>, <<17074, 39020>>, <<56251, 51670>>, <<44220, 63808>>,
    <<13016, 27875>>, <<17887, 23669>>, <<56534, 3535>>, <<43985, 15705>>,
    <<9945, 12460>>, <<20958, 58>>, <<51415, 20864>>, <<49104, 24854>>,
    <<8628, 62645>>, <<22195, 50211>>, <<53178, 38297>>, <<47293, 42255>>,
    <<10242, 47262>>, <<24325, 34824>>, <<50700, 55730>>, <<45323, 59684>>,
    <<12143, 31879>>, <<22632, 19473>>, <<49505, 7595>>, <<46694, 11581>>,
    <<30428, 16784>>, <<475, 28934>>, <<39122, 8380>>, <<61397, 4138>>,
    <<29105, 34185>>, <<1718, 46367>>, <<40895, 58533>>, <<59576, 54323>>,
    <<30727, 51618>>, <<3840, 63796>>, <<38409, 43150>>, <<57614, 38936>>,
    <<32618, 3515>>, <<2157, 15661>>, <<37220, 27799>>, <<58979, 23553>>,
    <<27499, 20980>>, <<7276, 24930>>, <<34149, 12504>>, <<62050, 78>>,
    <<27654, 38381>>, <<6913, 42363>>, <<33288, 62657>>, <<62735, 50263>>,
    <<26032, 55750>>, <<4791, 59728>>, <<35774, 47338>>, <<64697, 34940>>,
    <<25309, 7647>>, <<5594, 11593>>, <<36051, 31987>>, <<64468, 19557>>,
    <<19890, 24920>>, <<15029, 20942>>, <<41916, 116>>, <<54459, 12514>>,
    <<19167, 42305>>, <<15832, 38359>>, <<42193, 50285>>, <<54230, 62715>>,
    <<17257, 59754>>, <<13422, 55804>>, <<44391, 34886>>, <<55904, 47312>>,
    <<17412, 11635>>, <<13059, 7653>>, <<43530, 19551>>, <<56589, 31945>>,
    <<20485, 28988>>, <<9986, 16810>>, <<48651, 4112>>, <<51468, 8326>>,
    <<22376, 46373>>, <<8303, 34227>>, <<47462, 54281>>, <<52833, 58527>>,
    <<24286, 63758>>, <<10713, 51608>>, <<45264, 38946>>, <<51159, 43188>>,
    <<22963, 15639>>, <<11956, 3457>>, <<47037, 23611>>, <<49338, 27821>>,
    <<60856, 33568>>, <<39615, 46006>>, <<950, 57868>>, <<29873, 53914>>,
    <<60117, 18233>>, <<40402, 30639>>, <<1243, 9749>>, <<29660, 5763>>,
    <<58211, 2834>>, <<37988, 15236>>, <<3437, 27198>>, <<31338, 23208>>,
    <<58382, 53003>>, <<37641, 65437>>, <<2560, 44583>>, <<32007, 40625>>,
    <<61455, 37700>>, <<34568, 41938>>, <<7681, 62056>>, <<26886, 49918>>,
    <<63330, 22365>>, <<32869, 26571>>, <<6508, 13937>>, <<28267, 1767>>,
    <<65236, 7030>>, <<35283, 11232>>, <<4314, 31322>>, <<26589, 19148>>,
    <<63929, 57199>>, <<36542, 61433>>, <<6071, 48707>>, <<24752, 36565>>,
    <<54998, 41960>>, <<41425, 37758>>, <<14552, 49860>>, <<20447, 62034>>,
    <<53691, 26609>>, <<42684, 22375>>, <<16309, 1757>>, <<18610, 13899>>,
    <<55309, 11226>>, <<44810, 6988>>, <<13827, 19190>>, <<16644, 31328>>,
    <<57184, 61379>>, <<43111, 57173>>, <<12654, 36591>>, <<18025, 48761>>,
    <<52065, 45964>>, <<48230, 33562>>, <<9583, 53920>>, <<21096, 57910>>,
    <<52236, 30613>>, <<47883, 18179>>, <<8706, 5817>>, <<21765, 9775>>,
    <<50618, 15294>>, <<45757, 2856>>, <<11188, 23186>>, <<23731, 27140>>,
    <<49879, 65447>>, <<46544, 53041>>, <<11481, 40587>>, <<23518, 44573>>,
    <<39780, 49840>>, <<60515, 61990>>, <<30058, 41884>>, <<621, 37642>>,
    <<39945, 1705>>, <<60174, 13887>>, <<29191, 26501>>, <<1280, 22291>>,
    <<38335, 19074>>, <<58040, 31252>>, <<31665, 11182>>, <<3254, 6968>>,
    <<37586, 36507>>, <<58837, 48653>>, <<31964, 61367>>, <<3035, 57121>>,
    <<34515, 53972>>, <<61908, 57922>>, <<26845, 46072>>, <<8154, 33646>>,
    <<33214, 5837>>, <<63161, 9819>>, <<28592, 30689>>, <<6327, 18295>>,
    <<34824, 23270>>, <<65295, 27248>>, <<26118, 15306>>, <<4353, 2908>>,
    <<36709, 40703>>, <<63586, 44649>>, <<24939, 65491>>, <<5740, 53061>>,
    <<40970, 57976>>, <<55053, 53998>>, <<19972, 33620>>, <<14595, 46018>>,
    <<42855, 9825>>, <<53344, 5879>>, <<18793, 18253>>, <<15982, 30683>>,
    <<44753, 27210>>, <<55766, 23260>>, <<16607, 2918>>, <<14296, 15344>>,
    <<43452, 44627>>, <<57019, 40645>>, <<18354, 53119>>, <<12469, 65513>>,
    <<48573, 61980>>, <<51898, 49802>>, <<21427, 37680>>, <<9396, 41894>>,
    <<47824, 13829>>, <<52695, 1683>>, <<21726, 22313>>, <<9177, 26559>>,
    <<45926, 31278>>, <<50273, 19128>>, <<23912, 6914>>, <<10863, 11156>>,
    <<46091, 48695>>, <<49932, 36513>>, <<23045, 57115>>, <<11522, 61325>>>>

\* crc = table[(crc ^ byte) & 0xFF] ^ (crc >> 8)
CrcByte(c, byte) ==
    LET t == CrcTable[XorByte(c[2] % 256, byte) + 1]
    IN <<Xor(c[1] \div 256, t[1]),
         Xor((c[1] % 256) * 256 + (c[2] \div 256), t[2])>>

\* the bytes bs[lo..hi] fed into the digest c in order, one half after the other
RECURSIVE CrcUpdate(_, _, _, _)
CrcUpdate(c, bs, lo, hi) ==
    IF lo > hi THEN c
    ELSE IF lo = hi THEN CrcByte(c, bs[lo])
    ELSE LET mid == (lo + hi) \div 2
             left == CrcUpdate(c, bs, lo, mid)
         IN IF left[1] < 0 THEN left ELSE CrcUpdate(left, bs, mid + 1, hi)

\* Crc::<u32>::new(&CRC_32_ISO_HDLC).checksum(bs)
Checksum(bs) ==
    LET c == CrcUpdate(<<65535, 65535>>, bs, 1, Len(bs))
    IN <<65535 - c[1], 65535 - c[2]>>

(***************************************************************************)
(* chunk_type.rs                                                           *)
(***************************************************************************)
is_ascii_uppercase(b) == b >= 65 /\ b <= 90      \* 'A'..='Z'
is_ascii_lowercase(b) == b >= 97 /\ b <= 122     \* 'a'..='z'
is_ascii_alphabetic(b) == is_ascii_uppercase(b) \/ is_ascii_lowercase(b)

\* the loop with `res = byte.is_ascii_alphabetic()`: the last byte decides
AlphabeticLastWins(bytes, n) == n = 0 \/ is_ascii_alphabetic(bytes[n])

\* the loop of is_bytes_ascii_alphabetic over bytes[1..n], res starting TRUE
RECURSIVE AlphabeticLoop(_, _)
AlphabeticLoop(bytes, n) ==
    IF n = 0 THEN TRUE
    ELSE IF ~is_ascii_alphabetic(bytes[n]) THEN FALSE
    ELSE AlphabeticLoop(bytes, n - 1)

is_bytes_ascii_alphabetic(bytes) == AlphabeticLoop(bytes, 4)

\* impl TryFrom<[u8; 4]> for ChunkType
ChunkTypeTryFrom(value) ==
    IF ~is_bytes_ascii_alphabetic(value)
    THEN Err("InvalidTag")      \* "ChunkType: bytes must be ASCII alphabetic"
    ELSE Ok([bytes |-> value])

\* impl FromStr for ChunkType; s is the str's UTF-8 bytes
ChunkTypeFromStr(s) ==
    IF Len(s) # 4
    THEN Err("InvalidLength")   \* "chunk type string must be 4 bytes long"
    ELSE ChunkTypeTryFrom(s)

bytes(ct) == ct.bytes

is_critical(ct) == is_ascii_uppercase(ct.bytes[1])
is_public(ct) == is_ascii_uppercase(ct.bytes[2])
is_reserved_bit_valid(ct) == is_ascii_uppercase(ct.bytes[3])
SafeToCopyUppercase(ct) == is_ascii_uppercase(ct.bytes[4])
is_safe_to_copy(ct) == is_ascii_lowercase(ct.bytes[4])
is_valid(ct) == is_bytes_ascii_alphabetic(ct.bytes) /\ is_reserved_bit_valid(ct)

(***************************************************************************)
(* chunk.rs                                                                *)
(***************************************************************************)
Drop(s, n) == SubSeq(s, n + 1, Len(s))
Take(s, n) == SubSeq(s, 1, n)

\* Chunk::new with the checksum taken over the payload alone
ChunkNewDataOnly(ct, dat) ==
    [chunk_type |-> ct, data |-> dat, crc |-> Checksum(dat)]

\* Chunk::new
ChunkNew(ct, dat) ==
    [chunk_type |-> ct,
     data       |-> dat,
     crc        |-> Checksum(bytes(ct) \o dat)]

\* `n as u32`, n the usize self.data.len()
LengthOf(n) == AsU32(n)

\* Chunk::length
length(c) == LengthOf(USize(Len(c.data)))

chunk_type(c) == c.chunk_type
data(c) == c.data
crc(c) == c.crc

\* as_bytes writing the length field with to_le_bytes
AsBytesLittleEndian(c) ==
    LET be == ToBeBytes(LengthOf(USize(Len(c.data))))
    IN <<be[4], be[3], be[2], be[1]>>
           \o c.chunk_type.bytes \o c.data \o ToBeBytes(c.crc)

\* Chunk::as_bytes
ChunkAsBytes(c) ==
    ToBeBytes(LengthOf(USize(Len(c.data))))
        \o bytes(c.chunk_type) \o c.data \o ToBeBytes(c.crc)

\* the number of bytes as_bytes collects for a payload of n bytes (a usize)
AsBytesLen(n) == USizeAdd(USizeAdd(USizeAdd(n, 4), 4), 4)

\* reader.take(length).read_to_end(&mut data): how many bytes it yields
\* when `avail` bytes are left in the reader
TakeLen(len32, avail) ==
    IF LimbLeq(len32, USize(avail)) THEN len32[1] * Limb + len32[2] ELSE avail

\* the CRC read with the short read ignored: crc_field stays [0, 0, 0, 0]
ReadCrcUnchecked(r) ==
    IF Len(r) < 4 THEN Ok(<<0, 0>>) ELSE Ok(FromBeBytes(Take(r, 4)))

\* the CRC read insisting that the CRC field ends the buffer
ReadCrcToEnd(r) ==
    IF Len(r) < 4 THEN Err("Truncated")
    ELSE IF Len(r) > 4 THEN Err("TrailingBytes")
    ELSE Ok(FromBeBytes(Take(r, 4)))

\* reader.read_exact(&mut crc_field)?; u32::from_be_bytes(crc_field)
ReadCrc(r) ==
    IF Len(r) < 4 THEN Err("Truncated")     \* "Not enough bytes in the CRC field"
    ELSE Ok(FromBeBytes(Take(r, 4)))

\* the comparison left out
CrcNotCompared(crc32, chunk_type_field, dat) == TRUE

\* crc == Crc::<u32>::new(&CRC_32_ISO_HDLC).checksum(chunk_type_field ++ data)
CrcMatches(crc32, chunk_type_field, dat) ==
    crc32 = Checksum(chunk_type_field \o dat)

\* impl TryFrom<&[u8]> for Chunk
ChunkTryFrom(value) ==
    IF Len(value) < 4 THEN Err("Truncated")     \* read_exact(length_field)
    ELSE
    LET len32 == FromBeBytes(Take(value, 4))
        r1 == Drop(value, 4)
    IN
    IF Len(r1) < 4 THEN Err("Truncated")        \* read_exact(chunk_type_field)
    ELSE
    LET chunk_type_field == Take(r1, 4)
        ct == ChunkTypeTryFrom(chunk_type_field)
        r2 == Drop(r1, 4)
    IN
    IF ~ct.ok THEN Err(ct.err)
    ELSE
    LET read_len == TakeLen(len32, Len(r2))
        dat == Take(r2, read_len)
        r3 == Drop(r2, read_len)
    IN
    IF USize(Len(dat)) # len32 /\ USize(read_len) # len32
    THEN Err("Truncated")       \* "Not enough bytes in the data field"
    ELSE IF Len(dat) # read_len THEN Err("Panic")
    ELSE
    LET crc_read == ReadCrc(r3)
    IN
    IF ~crc_read.ok THEN Err(crc_read.err)
    ELSE IF ~CrcMatches(crc_read.val, chunk_type_field, dat)
    THEN Err("ChecksumMismatch")                \* "Crc check failed"
    ELSE Ok([chunk_type |-> ct.val, data |-> dat, crc |-> crc_read.val])

\* std String::from_utf8: is s[i..] well-formed UTF-8
Cont(s, i) == i <= Len(s) /\ s[i] >= 128 /\ s[i] <= 191
RECURSIVE Utf8From(_, _)
Utf8From(s, i) ==
    IF i > Len(s) THEN TRUE
    ELSE LET b == s[i] IN
      IF b < 128 THEN Utf8From(s, i + 1)
      ELSE IF b >= 194 /\ b <= 223 THEN Cont(s, i + 1) /\ Utf8From(s, i + 2)
      ELSE IF b >= 224 /\ b <= 239
           THEN /\ Cont(s, i + 1) /\ Cont(s, i + 2)
                /\ (b = 224 => s[i + 1] >= 160)
                /\ (b = 237 => s[i + 1] <= 159)
                /\ Utf8From(s, i + 3)
      ELSE IF b >= 240 /\ b <= 244
           THEN /\ Cont(s, i + 1) /\ Cont(s, i + 2) /\ Cont(s, i + 3)
                /\ (b = 240 => s[i + 1] >= 144)
                /\ (b = 244 => s[i + 1] <= 143)
                /\ Utf8From(s, i + 4)
      ELSE FALSE

\* Chunk::data_as_string
data_as_string(c) ==
    IF Utf8From(c.data, 1) THEN Ok(c.data) ELSE Err("NotUtf8")

(***************************************************************************)
(* png.rs (not among the sources): the container, after spec.md 4.3        *)
(***************************************************************************)
STANDARD_HEADER == <<137, 80, 78, 71, 13, 10, 26, 10>>

\* the records of `rest`, each parsed by Chunk::try_from and skipped by its
\* serialised size, until the buffer is used up
RECURSIVE ParseChunks(_, _)
ParseChunks(rest, acc) ==
    IF rest = <<>> THEN Ok([chunks |-> acc])
    ELSE LET r == ChunkTryFrom(rest)
         IN IF ~r.ok THEN Err(r.err)
            ELSE ParseChunks(Drop(rest, 12 + Len(r.val.data)), Append(acc, r.val))

\* Png::try_from(&[u8])
PngTryFrom(value) ==
    IF Len(value) < 8 \/ Take(value, 8) # STANDARD_HEADER
    THEN Err("BadSignature")
    ELSE ParseChunks(Drop(value, 8), <<>>)

RECURSIVE ConcatChunks(_, _)
ConcatChunks(cs, n) ==
    IF n = 0 THEN <<>> ELSE ConcatChunks(cs, n - 1) \o ChunkAsBytes(cs[n])

\* Png::as_bytes
PngAsBytes(p) == STANDARD_HEADER \o ConcatChunks(p.chunks, Len(p.chunks))

\* Png::append_chunk
PngAppendChunk(p, c) == [chunks |-> Append(p.chunks, c)]

\* Png::chunks
chunks(p) == p.chunks

\* index of the first chunk of cs[i..] with type ct, 0 when there is none
RECURSIVE FirstMatch(_, _, _)
FirstMatch(cs, ct, i) ==
    IF i > Len(cs) THEN 0
    ELSE IF cs[i].chunk_type = ct THEN i
    ELSE FirstMatch(cs, ct, i + 1)

\* Png::remove_chunk(&str): the container afterwards and the Result
PngRemoveChunk(p, tag_text) ==
    LET ct == ChunkTypeFromStr(tag_text) IN
    IF ~ct.ok THEN [png |-> p, res |-> Err(ct.err)]
    ELSE LET i == FirstMatch(p.chunks, ct.val, 1) IN
         IF i = 0 THEN [png |-> p, res |-> Err("NotFound")]
         ELSE [png |-> [chunks |-> Take(p.chunks, i - 1) \o Drop(p.chunks, i)],
               res |-> Ok(p.chunks[i])]

(***************************************************************************)
(* commands.rs                                                             *)
(***************************************************************************)
NoFile == [exists |-> FALSE, bytes |-> <<>>]

\* std::fs::read
ReadFile(fsys, path) ==
    IF fsys[path].exists THEN Ok(fsys[path].bytes) ELSE Err("Io")

\* std::fs::write
WriteFile(fsys, path, b) == [fsys EXCEPT ![path] = [exists |-> TRUE, bytes |-> b]]

\* a handler that returned `res` with nothing written
Returned(fsys, file, p, res) ==
    [fs |-> fsys, file |-> file, png |-> p, res |-> res, wrote |-> "", out |-> <<>>]

\* encode(args); args.output_file = "" stands for None
encode(fsys, a) ==
    LET file == ReadFile(fsys, a.file_path) IN
    IF ~file.ok THEN Returned(fsys, <<>>, Nothing, Err(file.err))
    ELSE
    LET p == PngTryFrom(file.val) IN
    IF ~p.ok THEN Returned(fsys, file.val, Nothing, Err(p.err))
    ELSE
    LET ct == ChunkTypeFromStr(a.chunk_type) IN
    IF ~ct.ok THEN Returned(fsys, file.val, p.val, Err(ct.err))
    ELSE
    LET p2 == PngAppendChunk(p.val, ChunkNew(ct.val, a.message))
        output_path == IF a.output_file # "" THEN a.output_file ELSE a.file_path
    IN [fs    |-> WriteFile(fsys, output_path, PngAsBytes(p2)),
        file  |-> file.val,
        png   |-> p2,
        res   |-> Ok(<<>>),
        wrote |-> output_path,
        out   |-> <<>>]

\* .iter().find(|chunk| *chunk.chunk_type() == chunk_type) with rfind
DecodeFindLast(cs, ct) ==
    IF \E i \in 1..Len(cs) : chunk_type(cs[i]) = ct
    THEN CHOOSE i \in 1..Len(cs) :
            /\ chunk_type(cs[i]) = ct
            /\ \A j \in (i + 1)..Len(cs) : chunk_type(cs[j]) # ct
    ELSE 0

\* png.chunks().iter().find(|chunk| *chunk.chunk_type() == chunk_type):
\* the index found, 0 for None
RECURSIVE FindFrom(_, _, _)
FindFrom(cs, ct, i) ==
    IF i > Len(cs) THEN 0
    ELSE IF chunk_type(cs[i]) = ct THEN i
    ELSE FindFrom(cs, ct, i + 1)

DecodeFind(cs, ct) == FindFrom(cs, ct, 1)

\* decode(args)
decode(fsys, a) ==
    LET file == ReadFile(fsys, a.file_path) IN
    IF ~file.ok THEN Returned(fsys, <<>>, Nothing, Err(file.err))
    ELSE
    LET p == PngTryFrom(file.val) IN
    IF ~p.ok THEN Returned(fsys, file.val, Nothing, Err(p.err))
    ELSE
    LET ct == ChunkTypeFromStr(a.chunk_type) IN
    IF ~ct.ok THEN Returned(fsys, file.val, p.val, Err(ct.err))
    ELSE
    LET i == DecodeFind(chunks(p.val), ct.val) IN
    IF i = 0
    THEN Returned(fsys, file.val, p.val, Err("NotFound"))   \* "No message found"
    ELSE
    LET message == data_as_string(chunks(p.val)[i]) IN
    IF ~message.ok THEN Returned(fsys, file.val, p.val, Err(message.err))
    ELSE [Returned(fsys, file.val, p.val, Ok(<<>>)) EXCEPT !.out = <<message.val>>]

\* remove(args) with the Result of remove_chunk dropped
RemoveIgnoringError(fsys, a) ==
    LET file == ReadFile(fsys, a.file_path) IN
    IF ~file.ok THEN Returned(fsys, <<>>, Nothing, Err(file.err))
    ELSE
    LET p == PngTryFrom(file.val) IN
    IF ~p.ok THEN Returned(fsys, file.val, Nothing, Err(p.err))
    ELSE
    LET r == PngRemoveChunk(p.val, a.chunk_type)
    IN [fs    |-> WriteFile(fsys, a.file_path, PngAsBytes(r.png)),
        file  |-> file.val,
        png   |-> r.png,
        res   |-> Ok(<<>>),
        wrote |-> a.file_path,
        out   |-> <<>>]

\* remove(args)
remove(fsys, a) ==
    LET file == ReadFile(fsys, a.file_path) IN
    IF ~file.ok THEN Returned(fsys, <<>>, Nothing, Err(file.err))
    ELSE
    LET p == PngTryFrom(file.val) IN
    IF ~p.ok THEN Returned(fsys, file.val, Nothing, Err(p.err))
    ELSE
    LET r == PngRemoveChunk(p.val, a.chunk_type) IN
    IF ~r.res.ok THEN Returned(fsys, file.val, r.png, Err(r.res.err))
    ELSE [fs    |-> WriteFile(fsys, a.file_path, PngAsBytes(r.png)),
          file  |-> file.val,
          png   |-> r.png,
          res   |-> Ok(<<>>),
          wrote |-> a.file_path,
          out   |-> <<>>]

\* what Display for Chunk shows of a chunk
ChunkDisplay(c) == <<length(c), bytes(chunk_type(c)), Len(data(c)), crc(c)>>

\* print_chunks(args)
print_chunks(fsys, a) ==
    LET file == ReadFile(fsys, a.file_path) IN
    IF ~file.ok THEN Returned(fsys, <<>>, Nothing, Err(file.err))
    ELSE
    LET p == PngTryFrom(file.val) IN
    IF ~p.ok THEN Returned(fsys, file.val, Nothing, Err(p.err))
    ELSE [Returned(fsys, file.val, p.val, Ok(<<>>)) EXCEPT
             !.out = [i \in 1..Len(chunks(p.val)) |-> ChunkDisplay(chunks(p.val)[i])]]

(***************************************************************************)
(* Inputs                                                                  *)
(***************************************************************************)
MaxData == 2        \* longest payload handed to Chunk::new
MaxSurplus == 2     \* most bytes appended after a serialised chunk
LongLen == 66       \* a payload longer than the value of any tag byte 'A'

SeqUpTo(S, n) == UNION {[1..k -> S] : k \in 0..n}

\* bytes at and around the edges of 'A'..'Z' and 'a'..'z'
TagByte == {64, 65, 90, 91, 96, 97, 122, 123}
\* "Rt1" strings of 3 to 5 bytes, and "Ru" followed by a 2-byte character
TagStr == {t \in SeqUpTo({82, 116, 49}, 5) : Len(t) >= 3}
              \cup {<<82, 117, 195, 169>>}
\* the tags of constructed ChunkTypes: "RuSt", "aaaa", "AAAA"
Tags == {<<82, 117, 83, 116>>, <<97, 97, 97, 97>>, <<65, 65, 65, 65>>}
DataByte == {0, 65, 255}
\* the payloads handed to Chunk::new: short ones, and one of LongLen bytes 'A'
Payloads == SeqUpTo(DataByte, MaxData) \cup {[i \in 1..LongLen |-> 65]}
FlipByte == {0, 97}

TypeIdle == tagIn = <<>> /\ tagRes = NoResult /\ tagFlags = Nothing
ChunkIdle ==
    /\ dataIn = <<>> /\ chunk = Nothing /\ buf = <<>> /\ bufKind = "none"
    /\ dropAt = -1 /\ parsed = NoResult
LenIdle == dataLen = <<>> /\ lenRes = <<>> /\ bytesLen = <<>>
CmdIdle == fs = <<>> /\ png = Nothing /\ last = Nothing

typeVars == <<tagIn, tagRes, tagFlags>>
chunkVars == <<dataIn, chunk, buf, bufKind, dropAt, parsed>>
lenVars == <<dataLen, lenRes, bytesLen>>
cmdVars == <<fs, png, last>>

(***************************************************************************)
(* ChunkType: construction and flags                                       *)
(***************************************************************************)
\* ChunkType::try_from(tagIn), tagIn a [u8; 4]
TryFromBytes ==
    /\ tagRes = NoResult /\ Len(tagIn) = 4
    /\ tagRes' = ChunkTypeTryFrom(tagIn)
    /\ UNCHANGED <<tagIn, tagFlags, chunkVars, lenVars, cmdVars>>

\* ChunkType::from_str(tagIn), tagIn the bytes of a str
FromStr ==
    /\ tagRes = NoResult
    /\ tagRes' = ChunkTypeFromStr(tagIn)
    /\ UNCHANGED <<tagIn, tagFlags, chunkVars, lenVars, cmdVars>>

QueryFlags ==
    /\ tagRes.ok /\ tagFlags = Nothing
    /\ tagFlags' = [valid       |-> is_valid(tagRes.val),
                    critical    |-> is_critical(tagRes.val),
                    public      |-> is_public(tagRes.val),
                    reserved    |-> is_reserved_bit_valid(tagRes.val),
                    safeToCopy  |-> is_safe_to_copy(tagRes.val),
                    raw         |-> bytes(tagRes.val)]
    /\ UNCHANGED <<tagIn, tagRes, chunkVars, lenVars, cmdVars>>

TypeInit ==
    /\ tagIn \in [1..4 -> TagByte] \cup TagStr
    /\ tagRes = NoResult /\ tagFlags = Nothing
    /\ ChunkIdle /\ LenIdle /\ CmdIdle
TypeNext ==
    \/ TryFromBytes
    \/ FromStr
    \/ QueryFlags
SpecType == TypeInit /\ [][TypeNext]_vars

(***************************************************************************)
(* Chunk: new, as_bytes, try_from on derived buffers                       *)
(***************************************************************************)
\* Chunk::new(tagRes.unwrap(), dataIn)
New ==
    /\ tagRes.ok /\ chunk = Nothing
    /\ chunk' = ChunkNew(tagRes.val, dataIn)
    /\ UNCHANGED <<dataIn, buf, bufKind, dropAt, parsed, typeVars, lenVars, cmdVars>>

AsBytes ==
    /\ chunk # Nothing
    /\ buf' = ChunkAsBytes(chunk)
    /\ bufKind' = "exact" /\ dropAt' = -1 /\ parsed' = NoResult
    /\ UNCHANGED <<dataIn, chunk, typeVars, lenVars, cmdVars>>

\* the serialised chunk with the byte at 0-based position i left out
DropByte(i) ==
    /\ bufKind = "exact"
    /\ buf' = Take(buf, i) \o Drop(buf, i + 1)
    /\ bufKind' = "dropped" /\ dropAt' = i /\ parsed' = NoResult
    /\ UNCHANGED <<dataIn, chunk, typeVars, lenVars, cmdVars>>

\* the serialised chunk with the byte at 0-based position i replaced
Corrupt(i, v) ==
    /\ bufKind = "exact"
    /\ v # buf[i + 1]
    /\ buf' = [buf EXCEPT ![i + 1] = v]
    /\ bufKind' = "corrupt" /\ dropAt' = i /\ parsed' = NoResult
    /\ UNCHANGED <<dataIn, chunk, typeVars, lenVars, cmdVars>>

\* the serialised chunk cut to its first n bytes
Truncate(n) ==
    /\ bufKind = "exact"
    /\ buf' = Take(buf, n)
    /\ bufKind' = "truncated" /\ dropAt' = -1 /\ parsed' = NoResult
    /\ UNCHANGED <<dataIn, chunk, typeVars, lenVars, cmdVars>>

\* the serialised chunk followed by further bytes
Surplus(extra) ==
    /\ bufKind = "exact"
    /\ buf' = buf \o extra
    /\ bufKind' = "surplus" /\ dropAt' = -1 /\ parsed' = NoResult
    /\ UNCHANGED <<dataIn, chunk, typeVars, lenVars, cmdVars>>

TryFrom ==
    /\ bufKind # "none" /\ parsed = NoResult
    /\ parsed' = ChunkTryFrom(buf)
    /\ UNCHANGED <<dataIn, chunk, buf, bufKind, dropAt, typeVars, lenVars, cmdVars>>

ChunkInit ==
    /\ tagIn \in Tags /\ tagRes = ChunkTypeTryFrom(tagIn) /\ tagFlags = Nothing
    /\ dataIn \in Payloads
    /\ chunk = Nothing /\ buf = <<>> /\ bufKind = "none"
    /\ dropAt = -1 /\ parsed = NoResult
    /\ LenIdle /\ CmdIdle
ChunkNext ==
    \/ New
    \/ AsBytes
    \/ \E i \in 0..(Len(buf) - 1) : DropByte(i)
    \/ \E i \in 0..(Len(buf) - 1) :
          \E v \in FlipByte \cup {Xor(buf[i + 1], 1)} : Corrupt(i, v)
    \/ \E n \in 0..(Len(buf) - 1) : Truncate(n)
    \/ \E extra \in SeqUpTo(DataByte, MaxSurplus) \ {<<>>} : Surplus(extra)
    \/ TryFrom
SpecChunk == ChunkInit /\ [][ChunkNext]_vars

(***************************************************************************)
(* Chunk sizes: length() and the size of as_bytes() for a payload of       *)
(* data.len() bytes, at the width of usize and u32                         *)
(***************************************************************************)
\* payload sizes around 0, 2^16 and 2^32
DataLens == {<<hi, lo>> : hi \in {0, 1, Limb - 1, Limb, Limb + 1},
                          lo \in {0, 1, 2, Limb - 3, Limb - 2, Limb - 1}}

LenLength ==
    /\ lenRes = <<>>
    /\ lenRes' = LengthOf(dataLen)
    /\ UNCHANGED <<dataLen, bytesLen, typeVars, chunkVars, cmdVars>>

LenAsBytes ==
    /\ bytesLen = <<>>
    /\ bytesLen' = AsBytesLen(dataLen)
    /\ UNCHANGED <<dataLen, lenRes, typeVars, chunkVars, cmdVars>>

LenInit ==
    /\ dataLen \in DataLens /\ lenRes = <<>> /\ bytesLen = <<>>
    /\ TypeIdle /\ ChunkIdle /\ CmdIdle
LenNext ==
    \/ LenLength
    \/ LenAsBytes
SpecLen == LenInit /\ [][LenNext]_vars

(***************************************************************************)
(* The commands over a file system of two paths                            *)
(***************************************************************************)
MaxChunks == 2      \* encode is not run on a file holding this many chunks

Paths == {"a", "b"}
\* the commands read "a"; "b" is only ever an output file
InPaths == {"a"}
\* chunk type arguments: "RuSt", "ruSt", "Ru1t" (not a tag), "RuS" (too short)
CmdTags == {<<82, 117, 83, 116>>, <<114, 117, 83, 116>>,
            <<82, 117, 49, 116>>, <<82, 117, 83>>}
\* message arguments: "A"
Messages == {<<65>>}

RuSt == [bytes |-> <<82, 117, 83, 116>>]
ruSt == [bytes |-> <<114, 117, 83, 116>>]
\* files found on disk: well-formed ones, and ones that are not
GoodFiles ==
    {PngAsBytes([chunks |-> <<>>]),
     PngAsBytes([chunks |-> <<ChunkNew(RuSt, <<255>>)>>]),
     PngAsBytes([chunks |-> <<ChunkNew(RuSt, <<66>>), ChunkNew(ruSt, <<65>>),
                              ChunkNew(RuSt, <<65>>)>>])}
BadFiles ==
    LET one == PngAsBytes([chunks |-> <<ChunkNew(RuSt, <<255>>)>>])
    IN {<<>>,
        [one EXCEPT ![8] = 13],             \* a wrong signature byte
        Take(one, Len(one) - 1),            \* cut short
        one \o <<0>>,                       \* a byte after the last chunk
        [one EXCEPT ![Len(one)] = Xor(one[Len(one)], 1)]}   \* a wrong CRC

Ran(cmd, a, o) ==
    /\ fs' = o.fs
    /\ png' = o.png
    /\ last' = [cmd |-> cmd, args |-> a, file |-> o.file, res |-> o.res,
                wrote |-> o.wrote, out |-> o.out]
    /\ UNCHANGED <<typeVars, chunkVars, lenVars>>

\* the file holds fewer than MaxChunks chunks, or does not parse
Small(path) ==
    LET p == PngTryFrom(fs[path].bytes)
    IN p.ok => Len(p.val.chunks) < MaxChunks

Encode(a) == Small(a.file_path) /\ Ran("encode", a, encode(fs, a))
Decode(a) == Ran("decode", a, decode(fs, a))
Remove(a) == Ran("remove", a, remove(fs, a))
PrintChunks(a) == Ran("print", a, print_chunks(fs, a))

Init ==
    /\ fs \in {[p \in Paths |-> IF p = "a" THEN f ELSE NoFile] :
                 f \in {NoFile} \cup {[exists |-> TRUE, bytes |-> b] :
                                         b \in GoodFiles \cup BadFiles}}
    /\ png = Nothing /\ last = Nothing
    /\ TypeIdle /\ ChunkIdle /\ LenIdle

Next ==
    \/ \E a \in [file_path : InPaths, chunk_type : CmdTags,
                 message : Messages, output_file : {"", "b"}] : Encode(a)
    \/ \E a \in [file_path : InPaths, chunk_type : CmdTags] : Decode(a)
    \/ \E a \in [file_path : InPaths, chunk_type : CmdTags] : Remove(a)
    \/ \E a \in [file_path : InPaths] : PrintChunks(a)

Spec == Init /\ [][Next]_vars

(***************************************************************************)
(* Properties of ChunkType (SpecType)                                      *)
(***************************************************************************)
IsUpper(b) == b \in 65..90
IsLower(b) == b \in 97..122
IsLetter(b) == IsUpper(b) \/ IsLower(b)

\* C4: construction from 4 raw bytes succeeds exactly when all 4 bytes are
\* ASCII letters; on success bytes() is the input unchanged, otherwise the
\* construction fails with InvalidTag.
C4_TagConstruction ==
    (Len(tagIn) = 4 /\ tagRes # NoResult) =>
        IF \A i \in 1..4 : IsLetter(tagIn[i])
        THEN tagRes.ok /\ bytes(tagRes.val) = tagIn
        ELSE ~tagRes.ok /\ tagRes.err = "InvalidTag"

\* a rejected tag whose last byte is a letter and whose first is not
C4_Witness ==
    /\ Len(tagIn) = 4 /\ tagRes # NoResult /\ ~tagRes.ok
    /\ IsLetter(tagIn[4]) /\ ~IsLetter(tagIn[1])

\* C5 as stated: each of is_critical, is_public, is_reserved_bit_valid and
\* is_safe_to_copy is true exactly when byte 0, 1, 2, 3 is uppercase.
C5_AllFlagsUppercase ==
    tagFlags # Nothing =>
        /\ tagFlags.critical = IsUpper(tagFlags.raw[1])
        /\ tagFlags.public = IsUpper(tagFlags.raw[2])
        /\ tagFlags.reserved = IsUpper(tagFlags.raw[3])
        /\ tagFlags.safeToCopy = IsUpper(tagFlags.raw[4])

\* C5 amended: is_critical, is_public and is_reserved_bit_valid are true
\* exactly when byte 0, 1, 2 is uppercase; is_safe_to_copy is true exactly
\* when byte 3 is lowercase.
C5_FlagsByCase ==
    tagFlags # Nothing =>
        /\ tagFlags.critical = IsUpper(tagFlags.raw[1])
        /\ tagFlags.public = IsUpper(tagFlags.raw[2])
        /\ tagFlags.reserved = IsUpper(tagFlags.raw[3])
        /\ tagFlags.safeToCopy = IsLower(tagFlags.raw[4])
        /\ tagFlags.safeToCopy = ~IsUpper(tagFlags.raw[4])

\* the flags of a tag shaped like "RuSt": upper, lower, upper, lower
C5_Witness ==
    /\ tagFlags # Nothing
    /\ tagFlags.critical /\ ~tagFlags.public /\ tagFlags.reserved
    /\ tagFlags.safeToCopy /\ IsLower(tagFlags.raw[4])

(***************************************************************************)
(* Properties of Chunk (SpecChunk)                                         *)
(***************************************************************************)
SameChunk(a, b) ==
    /\ a.chunk_type.bytes = b.chunk_type.bytes
    /\ a.data = b.data
    /\ a.crc = b.crc

\* C1: parsing the serialisation of a chunk built by Chunk::new succeeds and
\* gives back its tag, payload and checksum.
C1_RecordRoundTrip ==
    (bufKind = "exact" /\ parsed # NoResult) =>
        parsed.ok /\ SameChunk(parsed.val, chunk)

C1_Witness ==
    /\ bufKind = "exact" /\ parsed # NoResult /\ parsed.ok
    /\ Len(chunk.data) >= 1

\* the buffer holds every field its length field announces
Framed(b) ==
    /\ Len(b) >= 12 /\ b[1] = 0 /\ b[2] = 0
    /\ Len(b) >= 12 + b[3] * 256 + b[4]
FramedTag(b) == SubSeq(b, 5, 8)
FramedData(b) == SubSeq(b, 9, 8 + b[3] * 256 + b[4])
FramedCrc(b) ==
    FromBeBytes(SubSeq(b, 9 + b[3] * 256 + b[4], 12 + b[3] * 256 + b[4]))

\* C2: a chunk built by Chunk::new, and a chunk Chunk::try_from returns,
\* stores the CRC-32 of its tag bytes followed by its payload; try_from
\* fails when the checksum in the buffer is not the recomputed one.
C2_ChecksumInvariant ==
    /\ chunk # Nothing =>
          chunk.crc = Checksum(chunk.chunk_type.bytes \o chunk.data)
    /\ (parsed # NoResult /\ parsed.ok) =>
          parsed.val.crc =
              Checksum(parsed.val.chunk_type.bytes \o parsed.val.data)
    /\ ( /\ parsed # NoResult /\ Framed(buf)
         /\ FramedCrc(buf) # Checksum(FramedTag(buf) \o FramedData(buf)) )
          => ~parsed.ok

\* a buffer altered in its payload or checksum field, rejected for its checksum
C2_Witness ==
    /\ bufKind = "corrupt" /\ dropAt >= 8 /\ parsed # NoResult
    /\ ~parsed.ok /\ parsed.err = "ChecksumMismatch"

\* C8 as stated: the serialisation with any single byte dropped fails to
\* parse, and the failure is Truncated.
C8_DropIsTruncated ==
    (bufKind = "dropped" /\ parsed # NoResult) =>
        ~parsed.ok /\ parsed.err = "Truncated"

\* C8 amended: the serialisation with the byte at position i dropped fails to
\* parse with Truncated when i >= 8 (payload or checksum field) and with
\* Truncated or InvalidTag when 4 <= i < 8 (tag field).  A byte dropped from
\* the length field (i < 4) changes the announced payload length: while the
\* payload is no longer than the value of the tag's first byte the parse
\* fails in the same two ways.
C8_DropFails ==
    (bufKind = "dropped" /\ parsed # NoResult) =>
        /\ dropAt >= 8 => ~parsed.ok /\ parsed.err = "Truncated"
        /\ (dropAt >= 4 /\ dropAt < 8) =>
               ~parsed.ok /\ parsed.err \in {"Truncated", "InvalidTag"}
        /\ (dropAt < 4 /\ Len(data(chunk)) <= bytes(chunk_type(chunk))[1]) =>
               ~parsed.ok /\ parsed.err \in {"Truncated", "InvalidTag"}

\* a byte dropped from the payload or checksum field, reported as Truncated
C8_Witness ==
    /\ bufKind = "dropped" /\ parsed # NoResult /\ dropAt >= 8
    /\ Len(chunk.data) >= 1 /\ parsed.err = "Truncated"

\* a byte dropped from the length or tag field, reported as InvalidTag
C8_InvalidTagReached ==
    /\ bufKind = "dropped" /\ parsed # NoResult /\ dropAt < 8
    /\ parsed.err = "InvalidTag"

\* a byte dropped from the length field of a long payload: the tag's first
\* byte is read as the length, the record is complete, its checksum differs
C8_LengthDropMismatch ==
    /\ bufKind = "dropped" /\ parsed # NoResult /\ dropAt < 4
    /\ Len(data(chunk)) > bytes(chunk_type(chunk))[1]
    /\ ~parsed.ok /\ parsed.err = "ChecksumMismatch"

\* C10: bytes after a complete valid record are ignored: the buffer parses to
\* the same chunk as its first 12 + L bytes alone.
C10_SurplusIgnored ==
    (bufKind = "surplus" /\ parsed # NoResult) =>
        /\ Framed(buf)
        /\ parsed.ok
        /\ parsed = ChunkTryFrom(Take(buf, 12 + buf[3] * 256 + buf[4]))
        /\ SameChunk(parsed.val, chunk)

C10_Witness ==
    /\ bufKind = "surplus" /\ parsed # NoResult /\ parsed.ok
    /\ Len(buf) > 12 + Len(parsed.val.data)

(***************************************************************************)
(* Properties of the container and the commands (Spec)                     *)
(***************************************************************************)
\* the container the last command parsed from the file it read
Before == PngTryFrom(last.file)
Parsed == last # Nothing /\ last.res # Err("Io") /\ Before.ok
IsTag(t) == Len(t) = 4 /\ \A i \in 1..4 : IsLetter(t[i])
Carries(cs, t) == {i \in 1..Len(cs) : cs[i].chunk_type.bytes = t}
Earliest(cs, t) ==
    CHOOSE i \in Carries(cs, t) : \A j \in Carries(cs, t) : i <= j
Without(cs, i) == [k \in 1..(Len(cs) - 1) |-> IF k < i THEN cs[k] ELSE cs[k + 1]]

\* C3: the bytes a command wrote parse back to the container it serialised:
\* the same number of records, in the same order, with the same tags and
\* payloads.
C3_ContainerRoundTrip ==
    (last # Nothing /\ last.wrote # "") =>
        LET r == PngTryFrom(fs[last.wrote].bytes) IN
        /\ fs[last.wrote].exists
        /\ r.ok
        /\ Len(r.val.chunks) = Len(png.chunks)
        /\ \A i \in 1..Len(png.chunks) : SameChunk(r.val.chunks[i], png.chunks[i])

\* a container of two records written after a parse and an append
C3_Witness ==
    /\ last # Nothing /\ last.cmd = "encode" /\ last.wrote # ""
    /\ Len(png.chunks) >= 2
    /\ png.chunks[1].data # png.chunks[2].data

\* C6: removing a tag no record carries fails with NotFound, leaves the
\* record sequence as parsed, and returns before anything is written.
C6_RemoveAbsent ==
    ( /\ Parsed /\ last.cmd = "remove" /\ IsTag(last.args.chunk_type)
      /\ Carries(Before.val.chunks, last.args.chunk_type) = {} )
    =>
        /\ ~last.res.ok /\ last.res.err = "NotFound"
        /\ png.chunks = Before.val.chunks
        /\ last.wrote = ""
        /\ fs[last.args.file_path].bytes = last.file

\* a remove that found no record with the tag in a container that has records
C6_Witness ==
    /\ Parsed /\ last.cmd = "remove" /\ IsTag(last.args.chunk_type)
    /\ Len(Before.val.chunks) >= 1
    /\ Carries(Before.val.chunks, last.args.chunk_type) = {}
    /\ last.res = Err("NotFound")

\* C7: decode shows the payload of the earliest record carrying the tag, and
\* remove takes out that same record and keeps the order of the others.
C7_EarliestMatch ==
    LET cs == Before.val.chunks
        t == last.args.chunk_type
    IN
    /\ (Parsed /\ last.cmd = "decode" /\ IsTag(t)) =>
          IF Carries(cs, t) = {} THEN last.res = Err("NotFound")
          ELSE IF last.res.ok THEN last.out = <<cs[Earliest(cs, t)].data>>
          ELSE /\ last.res = Err("NotUtf8")
               /\ ~data_as_string(cs[Earliest(cs, t)]).ok
    /\ (Parsed /\ last.cmd = "remove" /\ IsTag(t) /\ Carries(cs, t) # {}) =>
          /\ last.res.ok
          /\ png.chunks = Without(cs, Earliest(cs, t))
          /\ PngTryFrom(fs[last.args.file_path].bytes) = Ok(png)

\* a decode of a tag that two records with different payloads carry
C7_Witness ==
    /\ Parsed /\ last.cmd = "decode" /\ last.res.ok
    /\ \E i, j \in Carries(Before.val.chunks, last.args.chunk_type) :
          i < j /\ Before.val.chunks[i].data # Before.val.chunks[j].data

\* a remove of a tag that two records carry
C7_RemoveReached ==
    /\ Parsed /\ last.cmd = "remove" /\ last.res.ok
    /\ \E i, j \in Carries(Before.val.chunks, last.args.chunk_type) :
          i < j /\ Before.val.chunks[i].data # Before.val.chunks[j].data

(***************************************************************************)
(* Properties of the chunk sizes (SpecLen)                                 *)
(***************************************************************************)
\* C9: length() is the number of payload bytes and as_bytes() has
\* 12 + length() bytes, for every payload size.
C9_LengthAndSize ==
    /\ lenRes # <<>> => lenRes = dataLen
    /\ (lenRes # <<>> /\ bytesLen # <<>>) => bytesLen = USizeAdd(lenRes, 12)

====
